---- MODULE Spec2Model ----
(***************************************************************************)
(* Model of the streaming bridge of the AI assistant desktop client:       *)
(*   - StreamingClient and StreamQueue        (app/openai_client.py)       *)
(*   - the chat tab's Send / Stop / poll      (app/ui/chat_tab.py)         *)
(*   - the preset tabs' Send / Stop / poll    (app/ui/preset_tab.py)       *)
(*   - the main loop's timer poll             (app/main.py)                *)
(* Every Send builds one StreamingClient, one StreamQueue and one worker   *)
(* thread; the three share the index of the Send (a "session").            *)
(***************************************************************************)
EXTENDS Integers, Sequences, FiniteSets, TLC

\* ------------------------------------------------------------------ bounds
MaxSends == 2        \* Sends that start a stream (chat and preset tabs together)
MaxChunks == 1       \* chunks a remote stream delivers at most, several streams
StreamChunks == 3    \* chunks a remote stream delivers at most, one stream
NumPresets == 2      \* preset tabs that exist in the window
MaxChats == 1        \* chats created with New Chat
MaxCalls == 4        \* producer calls made on a StreamQueue on its own
MaxGets == 4         \* get_token calls made on a StreamQueue on its own
MaxStops == 2        \* stop_streaming calls made on a StreamingClient on its own
ClientChunks == 2    \* chunks a remote stream delivers at most, one client reused
MaxPadding == 20     \* characters of a key behind its prefix, at most
ManyChats == 2       \* highest chat id when chats are selected and deleted
MaxDbCalls == 5      \* calls made on a Database on its own

\* utils.py 153: the length validate_api_key compares len(api_key) with
MinKeyLength == 20
\* chat_tab.py 376: truncate_text(user_message, 40)
ChatNameLength == 40

Sessions == 1..MaxSends
Presets == 1..NumPresets

\* Python's None: the queue's sentinel, the result of an empty poll, no error.
None == "None"
\* delta.content of the k-th chunk of the stream of session s: a fragment that
\* names the session and the position, or "" for an absent or empty content.
Fragment(s, k) == <<<<"a", "b", "c", "d", "e", "f">>,
                    <<"A", "B", "C", "D", "E", "F">>,
                    <<"p", "q", "r", "s", "t", "u">>,
                    <<"P", "Q", "R", "S", "T", "U">>>>[s][k]
Contents(s, k) == {"", Fragment(s, k)}
\* what the remote call raises: when the request is made, while chunks arrive
CreateErrors == {"APIConnectionError"}
StreamErrors == {"APIError"}
\* what Database.add_message / add_preset_run re-raise
DbError == "OperationalError"
\* text of the chat input after strip(), as its characters
UserInputs == {<<>>, <<"h", "i">>}

VARIABLES
    \* --- one StreamingClient + StreamQueue + worker per Send (session)
    nsess,             \* sessions created so far
    owner,             \* session -> 0 (chat tab) or the preset id of its Send; -1 unused
    client,            \* session -> the StreamingClient it was started on; 0 unused
    stop_event,        \* StreamingClient._stop_event, per client
    sq_queue,          \* StreamQueue.queue
    sq_complete,       \* StreamQueue._complete
    sq_error,          \* StreamQueue._error
    pc,                \* position of the worker thread in _stream
    received,          \* content of the chunks the for loop has been handed
    full_response,     \* _stream's local full_response
    cb_full_response,  \* the Send handler's nonlocal full_response (callbacks)
    exc,               \* exception in flight to the except clause
    marking,           \* queue object on which mark_complete/mark_error is running
    log,               \* history: callbacks invoked by the worker, how it left
                       \* the loop (break / end of the stream) and the first
                       \* stop_streaming call on its client, in order
    stopped,           \* history: stop_streaming was called on the session's client
    creates,           \* history: number of completions.create calls
    sent_chat,         \* history: state.current_chat_id when the chat tab's Send
                       \* was handled
    sq_puts,           \* history: every entry ever put on the queue, in order
    sq_marks,          \* history: mark_complete / mark_error calls on the queue
    \* --- UI thread
    chat,              \* ChatTabState
    preset,            \* PresetTabState
    window,            \* the window's elements (buttons, status, history)
    \* --- database
    chats,             \* ids of the rows of the chats table
    chat_name,         \* chats.name of every row: id -> name
    messages,          \* rows of the messages table, in creation order
    preset_runs,       \* rows of the preset_runs table, in creation order
    \* --- a StreamQueue driven on its own (producer thread + consumer thread)
    h_pc,              \* producer: "idle" or inside mark_complete / mark_error
    h_calls,           \* producer calls made so far
    h_pre,             \* queue observed when the running / last mark_* call began
    h_last,            \* last producer call that returned
    h_got,             \* values get_token has returned, in order
    \* --- a StreamingClient driven on its own (calls in any order)
    h_stops,           \* stop_streaming calls made so far
    h_stale,           \* invocations started while the stop flag was set
    \* --- validate_api_key called on its own
    api_key,           \* the argument, a sequence of characters
    valid,             \* what validate_api_key returned for it: <<>> before the
                       \* call, <<result>> after
    \* --- a Database driven on its own
    db_calls,          \* calls made so far
    db_pre,            \* the tables when the last call began
    db_last,           \* the last call: <<method, chat_id>>
    \* --- extent of the run
    limit              \* Sends that may start a stream, chunks a stream may
                       \* deliver, highest chat id, texts typed into the chat input

sessVars == <<nsess, owner, client, stop_event, pc, received, full_response,
              cb_full_response, exc, marking, log, stopped, creates, sent_chat>>
queueVars == <<sq_queue, sq_complete, sq_error, sq_puts, sq_marks>>
uiVars == <<chat, preset, window>>
dbVars == <<chats, chat_name, messages, preset_runs>>
clientVars == <<h_stops, h_stale>>
keyVars == <<api_key, valid>>
dbCallVars == <<db_calls, db_pre, db_last>>
harnessVars == <<h_pc, h_calls, h_pre, h_last, h_got, limit, clientVars, keyVars, dbCallVars>>
vars == <<sessVars, queueVars, uiVars, dbVars, harnessVars>>

\* ------------------------------------------------------------ helpers
RECURSIVE Concat(_)
\* "".join(seq): concatenation of a sequence of strings
Concat(seq) == IF seq = <<>> THEN "" ELSE Head(seq) \o Concat(Tail(seq))

IsPrefix(s, t) == Len(s) <= Len(t) /\ SubSeq(t, 1, Len(s)) = s

NotNone(x) == x # None

\* values of the events of a callback log with the given kind
Logged(lg, kind) ==
    LET sel == SelectSeq(lg, LAMBDA e : e[1] = kind)
    IN  [i \in 1..Len(sel) |-> sel[i][2]]

\* ------------------------------------------------------------ StreamQueue
\* queue.Queue.put on an unbounded FIFO queue
put(items, item) == Append(items, item)

\* StreamQueue.get_token: (returned value, remaining queue); queue.Empty -> None
get_token_last(items) ==
    IF items = <<>> THEN <<None, items>>
    ELSE <<items[Len(items)], SubSeq(items, 1, Len(items) - 1)>>
get_token_keep(items) ==
    IF items = <<>> THEN <<None, items>> ELSE <<Head(items), items>>
get_token(items) ==
    IF items = <<>> THEN <<None, items>> ELSE <<Head(items), Tail(items)>>

is_complete(q) == sq_complete[q]
has_error(q) == sq_error[q] # None
get_error(q) == sq_error[q]

\* StreamQueue.add_token(token) on queue q
add_token(q, token) ==
    /\ sq_queue' = [sq_queue EXCEPT ![q] = put(@, token)]
    /\ sq_puts' = [sq_puts EXCEPT ![q] = Append(@, token)]

\* StreamQueue.mark_complete, first statement: self._complete = True
mark_complete_skip(q) ==
    /\ sq_complete' = sq_complete
    /\ sq_marks' = [sq_marks EXCEPT ![q] = Append(@, "complete")]
mark_complete_flag(q) ==
    /\ sq_complete' = [sq_complete EXCEPT ![q] = TRUE]
    /\ sq_marks' = [sq_marks EXCEPT ![q] = Append(@, "complete")]

\* StreamQueue.mark_error, first statement: self._error = error
mark_error_also_complete(q, e) ==
    /\ sq_error' = [sq_error EXCEPT ![q] = e]
    /\ sq_complete' = [sq_complete EXCEPT ![q] = TRUE]
    /\ sq_marks' = [sq_marks EXCEPT ![q] = Append(@, "error")]
mark_error_store(q, e) ==
    /\ sq_error' = [sq_error EXCEPT ![q] = e]
    /\ sq_complete' = sq_complete
    /\ sq_marks' = [sq_marks EXCEPT ![q] = Append(@, "error")]

\* mark_complete / mark_error, second statement: self.queue.put(None)
mark_put(q) ==
    /\ sq_queue' = [sq_queue EXCEPT ![q] = put(@, None)]
    /\ sq_puts' = [sq_puts EXCEPT ![q] = Append(@, None)]

\* ------------------------------------------------- StreamingClient._stream
\* state.stream_queue as the callbacks of session s read it when they run
TabQueue(s) == IF owner[s] = 0 THEN chat.stream_queue ELSE preset.stream_queue

\* line 59: getattr(chunk.choices[0].delta, "content", None) is truthy
has_content_always(c) == TRUE
has_content(c) == c # ""

\* line 54 / line 64: self._stop_event.is_set()
is_set_never(s) == FALSE
is_set(s) == stop_event[client[s]]

\* line 65: the argument handed to on_complete
complete_arg_last(s) ==
    IF received[s] = <<>> THEN "" ELSE received[s][Len(received[s])]
complete_arg(s) == full_response[s]

\* line 70: the argument handed to on_error
error_arg_generic(s) == "Exception"
error_arg(s) == exc[s]

\* lines 45-49: self.client.chat.completions.create(...)
StreamCreate(s) ==
    /\ pc[s] = "create"
    /\ creates' = [creates EXCEPT ![s] = @ + 1]
    /\ \/ /\ pc' = [pc EXCEPT ![s] = "next"]
          /\ exc' = exc
       \/ \E e \in CreateErrors :
            /\ pc' = [pc EXCEPT ![s] = "on_error"]
            /\ exc' = [exc EXCEPT ![s] = e]
    /\ UNCHANGED <<nsess, owner, client, stop_event, received, full_response,
                   cb_full_response, marking, log, stopped, sent_chat>>
    /\ UNCHANGED <<queueVars, uiVars, dbVars, harnessVars>>

\* lines 53-56: the for loop asks the remote stream for its next chunk, then
\* tests the stop flag; the stream may also end or raise
StreamNext(s) ==
    /\ pc[s] = "next"
    /\ \/ /\ Len(received[s]) < limit.chunks
          /\ \E c \in Contents(s, Len(received[s]) + 1) :
            /\ received' = [received EXCEPT ![s] = Append(@, c)]
            /\ pc' = [pc EXCEPT ![s] = IF is_set(s) THEN "final" ELSE "content"]
            /\ log' = [log EXCEPT ![s] =
                         IF is_set(s) THEN Append(@, <<"leave", "break">>) ELSE @]
            /\ exc' = exc
       \/ /\ pc' = [pc EXCEPT ![s] = "final"]
          /\ log' = [log EXCEPT ![s] = Append(@, <<"leave", "end">>)]
          /\ UNCHANGED <<received, exc>>
       \/ \E e \in StreamErrors :
            /\ pc' = [pc EXCEPT ![s] = "on_error"]
            /\ exc' = [exc EXCEPT ![s] = e]
            /\ UNCHANGED <<received, log>>
    /\ UNCHANGED <<nsess, owner, client, stop_event, full_response, cb_full_response,
                   marking, stopped, creates, sent_chat>>
    /\ UNCHANGED <<queueVars, uiVars, dbVars, harnessVars>>

\* lines 58-62 with the tabs' on_token (chat_tab.py 406-410, preset_tab.py
\* 379-383): full_response += token; on_token(token)
StreamContent(s) ==
    /\ pc[s] = "content"
    /\ LET c == received[s][Len(received[s])]
       IN  IF has_content(c)
           THEN /\ full_response' = [full_response EXCEPT ![s] = @ \o c]
                /\ cb_full_response' = [cb_full_response EXCEPT ![s] = @ \o c]
                /\ log' = [log EXCEPT ![s] = Append(@, <<"token", c>>)]
                /\ add_token(TabQueue(s), c)
           ELSE UNCHANGED <<full_response, cb_full_response, log, sq_queue, sq_puts>>
    /\ pc' = [pc EXCEPT ![s] = "next"]
    /\ UNCHANGED <<nsess, owner, client, stop_event, received, exc, marking, stopped, creates, sent_chat>>
    /\ UNCHANGED <<sq_complete, sq_error, sq_marks, uiVars, dbVars, harnessVars>>

\* line 64: the condition under which on_complete is called
calls_on_complete_always(s) == TRUE
calls_on_complete(s) == ~is_set(s)

\* line 64: if not self._stop_event.is_set()
StreamFinal(s) ==
    /\ pc[s] = "final"
    /\ pc' = [pc EXCEPT ![s] = IF calls_on_complete(s) THEN "on_complete" ELSE "done"]
    /\ UNCHANGED <<nsess, owner, client, stop_event, received, full_response,
                   cb_full_response, exc, marking, log, stopped, creates, sent_chat>>
    /\ UNCHANGED <<queueVars, uiVars, dbVars, harnessVars>>

\* line 65 with the tabs' on_complete up to the database write (chat_tab.py
\* 412-417, preset_tab.py 385-387); add_message / add_preset_run re-raise
OnComplete(s) ==
    /\ pc[s] = "on_complete"
    /\ log' = [log EXCEPT ![s] = Append(@, <<"complete", complete_arg(s)>>)]
    /\ \/ /\ IF owner[s] = 0
             THEN /\ preset_runs' = preset_runs
                  /\ messages' =
                       IF chat.current_chat_id # 0
                       THEN Append(messages, [chat_id |-> chat.current_chat_id,
                                              role |-> "assistant",
                                              content |-> cb_full_response[s]])
                       ELSE messages
             ELSE /\ messages' = messages
                  /\ preset_runs' = Append(preset_runs,
                                           [preset_id |-> owner[s],
                                            response |-> cb_full_response[s]])
          /\ pc' = [pc EXCEPT ![s] = "mark_complete"]
          /\ exc' = exc
       \/ /\ owner[s] = 0 => chat.current_chat_id # 0
          /\ pc' = [pc EXCEPT ![s] = "on_error"]
          /\ exc' = [exc EXCEPT ![s] = DbError]
          /\ UNCHANGED <<messages, preset_runs>>
    /\ UNCHANGED <<nsess, owner, client, stop_event, received, full_response,
                   cb_full_response, marking, stopped, creates, sent_chat>>
    /\ UNCHANGED <<queueVars, uiVars, chats, chat_name, harnessVars>>

\* the tabs' on_complete, `if state.stream_queue: state.stream_queue.mark_complete()`
\* up to self._complete = True (openai_client.py 96)
MarkComplete(s) ==
    /\ pc[s] = "mark_complete"
    /\ marking' = [marking EXCEPT ![s] = TabQueue(s)]
    /\ mark_complete_flag(TabQueue(s))
    /\ pc' = [pc EXCEPT ![s] = "mark_complete_put"]
    /\ UNCHANGED <<nsess, owner, client, stop_event, received, full_response,
                   cb_full_response, exc, log, stopped, creates, sent_chat>>
    /\ UNCHANGED <<sq_queue, sq_error, sq_puts, uiVars, dbVars, harnessVars>>

\* openai_client.py 97: self.queue.put(None), then on_complete and _stream return
MarkCompletePut(s) ==
    /\ pc[s] = "mark_complete_put"
    /\ mark_put(marking[s])
    /\ pc' = [pc EXCEPT ![s] = "done"]
    /\ UNCHANGED <<nsess, owner, client, stop_event, received, full_response,
                   cb_full_response, exc, marking, log, stopped, creates, sent_chat>>
    /\ UNCHANGED <<sq_complete, sq_error, sq_marks, uiVars, dbVars, harnessVars>>

\* lines 68-70 with the tabs' on_error (chat_tab.py 422-424, preset_tab.py
\* 392-394) up to self._error = error (openai_client.py 101)
OnError(s) ==
    /\ pc[s] = "on_error"
    /\ log' = [log EXCEPT ![s] = Append(@, <<"error", error_arg(s)>>)]
    /\ marking' = [marking EXCEPT ![s] = TabQueue(s)]
    /\ mark_error_store(TabQueue(s), error_arg(s))
    /\ pc' = [pc EXCEPT ![s] = "mark_error_put"]
    /\ UNCHANGED <<nsess, owner, client, stop_event, received, full_response,
                   cb_full_response, exc, stopped, creates, sent_chat>>
    /\ UNCHANGED <<sq_queue, sq_puts, uiVars, dbVars, harnessVars>>

\* openai_client.py 102: self.queue.put(None), then on_error and _stream return
MarkErrorPut(s) ==
    /\ pc[s] = "mark_error_put"
    /\ mark_put(marking[s])
    /\ pc' = [pc EXCEPT ![s] = "done"]
    /\ UNCHANGED <<nsess, owner, client, stop_event, received, full_response,
                   cb_full_response, exc, marking, log, stopped, creates, sent_chat>>
    /\ UNCHANGED <<sq_complete, sq_error, sq_marks, uiVars, dbVars, harnessVars>>

\* ------------------------------------------------------------ database
\* Database.get_chat_messages(chat_id)
get_chat_messages(chat_id) == SelectSeq(messages, LAMBDA m : m.chat_id = chat_id)

\* the id SQLite gives the next row of chats: the table is created without
\* AUTOINCREMENT (orm_models.py 15-22), so it is one more than the largest id
\* in use and the id of a deleted last row is given out again
next_chat_id ==
    IF chats = {} THEN 1
    ELSE (CHOOSE m \in chats : \A c \in chats : c <= m) + 1

\* Database.create_chat(name): the new id and the table afterwards
create_chat(name) ==
    [id |-> next_chat_id,
     chats |-> chats \cup {next_chat_id},
     chat_name |-> chat_name \cup {<<next_chat_id, name>>}]

\* Database.get_chat(chat_id): the name of the row, None when there is none
get_chat(chat_id) ==
    IF chat_id \in chats
    THEN (CHOOSE r \in chat_name : r[1] = chat_id)[2]
    ELSE None

\* Database.update_chat_name(chat_id, name): chats.name afterwards
update_chat_name(chat_id, name) ==
    IF chat_id \in chats
    THEN {r \in chat_name : r[1] # chat_id} \cup {<<chat_id, name>>}
    ELSE chat_name

\* Database.delete_chat(chat_id): the tables afterwards; session.delete(chat)
\* deletes the messages of the chat with it (cascade "all, delete-orphan")
delete_chat_keep_messages(chat_id) ==
    IF chat_id \in chats
    THEN [chats |-> chats \ {chat_id},
          chat_name |-> {r \in chat_name : r[1] # chat_id},
          messages |-> messages]
    ELSE [chats |-> chats, chat_name |-> chat_name, messages |-> messages]
delete_chat(chat_id) ==
    IF chat_id \in chats
    THEN [chats |-> chats \ {chat_id},
          chat_name |-> {r \in chat_name : r[1] # chat_id},
          messages |-> SelectSeq(messages, LAMBDA m : m.chat_id # chat_id)]
    ELSE [chats |-> chats, chat_name |-> chat_name, messages |-> messages]

\* str.strip() / str.rstrip() on a sequence of characters
Whitespace == {" ", "\n", "\t"}
RECURSIVE lstrip(_)
lstrip(text) ==
    IF text # <<>> /\ Head(text) \in Whitespace THEN lstrip(Tail(text)) ELSE text
RECURSIVE rstrip(_)
rstrip(text) ==
    IF text # <<>> /\ text[Len(text)] \in Whitespace
    THEN rstrip(SubSeq(text, 1, Len(text) - 1))
    ELSE text
strip(text) == rstrip(lstrip(text))

\* utils.truncate_text(text, max_length)
truncate_text(text, max_length) ==
    LET stripped == strip(text)
    IN  IF Len(stripped) <= max_length
        THEN stripped
        ELSE rstrip(SubSeq(stripped, 1, max_length)) \o <<".", ".", ".">>

RECURSIVE history_text(_)
\* load_chat_messages, chat_tab.py 143-148: the text shown for stored messages
history_text(msgs) ==
    IF msgs = <<>> THEN ""
    ELSE LET m == Head(msgs)
         IN  (IF m.role = "user" THEN "You:\n" \o m.content \o "\n\n"
              ELSE IF m.role = "assistant" THEN "Assistant:\n" \o m.content \o "\n\n"
              ELSE "") \o history_text(Tail(msgs))

\* ------------------------------------------------------- PresetTabState dict
\* state.is_streaming: preset_id -> bool, a dict in insertion order
DictHas(d, k) == \E i \in 1..Len(d) : d[i][1] = k
DictGet(d, k) == \E i \in 1..Len(d) : d[i][1] = k /\ d[i][2]
DictSet(d, k, v) ==
    IF DictHas(d, k)
    THEN [i \in 1..Len(d) |-> IF d[i][1] = k THEN <<k, v>> ELSE d[i]]
    ELSE Append(d, <<k, v>>)

\* threading.Event.set() / clear() on the stop flag of client c
set_event_toggle(c) == [stop_event EXCEPT ![c] = ~@]
set_event(c) == [stop_event EXCEPT ![c] = TRUE]
clear_event_skip(c) == stop_event
clear_event(c) == [stop_event EXCEPT ![c] = FALSE]

\* StreamingClient.stop_streaming on client c; the history of every invocation
\* started on c records the (first) call
stop_streaming(c) ==
    /\ stop_event' = set_event(c)
    /\ stopped' = [s \in Sessions |-> stopped[s] \/ client[s] = c]
    /\ log' = [s \in Sessions |->
                 IF client[s] = c /\ ~stopped[s]
                 THEN Append(log[s], <<"stop", "">>) ELSE log[s]]

\* stream_chat_completion called on client c with the callbacks of tab o
\* (0 = chat, else the preset id), as invocation s: clear the flag, start the
\* thread
stream_chat_completion(s, c, o) ==
    /\ nsess' = s
    /\ owner' = [owner EXCEPT ![s] = o]
    /\ client' = [client EXCEPT ![s] = c]
    /\ stop_event' = clear_event(c)
    /\ pc' = [pc EXCEPT ![s] = "create"]
    /\ sent_chat' = [sent_chat EXCEPT ![s] = IF o = 0 THEN chat.current_chat_id ELSE 0]
    /\ UNCHANGED <<received, full_response, cb_full_response, exc, marking,
                   log, stopped, creates>>

\* --------------------------------------------------------------- chat tab
\* chat_tab.py 190-192, 197-199, 449-451: the buttons and the status line when
\* the chat tab leaves the streaming state
chat_buttons_send_only(win, status) ==
    [win EXCEPT !.chat_send_disabled = FALSE, !.chat_status = status]
chat_buttons(win, status) ==
    [win EXCEPT !.chat_send_disabled = FALSE,
                !.chat_stop_disabled = TRUE,
                !.chat_status = status]

\* chat_tab.py 181-201: the streaming poll at the top of handle_chat_events;
\* gives the tab state, the window and the polled queue's content afterwards
ChatPolled ==
    LET q == chat.stream_queue
    IN  IF chat.is_streaming /\ q # 0
        THEN LET r == get_token(sq_queue[q])
                 ended == [chat EXCEPT !.is_streaming = FALSE]
             IN  IF r[1] # None
                 THEN [chat |-> chat,
                       window |-> [window EXCEPT !.chat_history = @ \o r[1]],
                       queue |-> [sq_queue EXCEPT ![q] = r[2]]]
                 ELSE IF is_complete(q)
                 THEN [chat |-> ended,
                       window |-> chat_buttons(window, ""),
                       queue |-> [sq_queue EXCEPT ![q] = r[2]]]
                 ELSE IF has_error(q)
                 THEN [chat |-> ended,
                       window |-> [chat_buttons(window, "Error occurred") EXCEPT
                                      !.popup = get_error(q)],
                       queue |-> [sq_queue EXCEPT ![q] = r[2]]]
                 ELSE [chat |-> chat, window |-> window,
                       queue |-> [sq_queue EXCEPT ![q] = r[2]]]
        ELSE [chat |-> chat, window |-> window, queue |-> sq_queue]

\* main.py 139-140: the timer tick polls the chat stream
ChatPoll ==
    /\ chat.is_streaming
    /\ chat' = ChatPolled.chat
    /\ window' = ChatPolled.window
    /\ sq_queue' = ChatPolled.queue
    /\ UNCHANGED <<sessVars, sq_complete, sq_error, sq_puts, sq_marks,
                   preset, dbVars, harnessVars>>

\* chat_tab.py 203-215: -CHAT-NEW-
ChatNew ==
    /\ next_chat_id <= limit.chats
    /\ sq_queue' = ChatPolled.queue
    /\ \/ LET created == create_chat("New Chat")
          IN  /\ chats' = created.chats
              /\ chat_name' = created.chat_name
              /\ chat' = [ChatPolled.chat EXCEPT !.current_chat_id = created.id]
              /\ window' = [ChatPolled.window EXCEPT
                               !.chat_history = "",
                               !.chat_status = "New chat created"]
       \/ \* create_chat raised: popup_error
          /\ chats' = chats
          /\ chat_name' = chat_name
          /\ chat' = ChatPolled.chat
          /\ window' = ChatPolled.window
    /\ UNCHANGED <<sessVars, sq_complete, sq_error, sq_puts, sq_marks,
                   preset, messages, preset_runs, harnessVars>>

\* chat_tab.py 349-442: -CHAT-SEND- (the Send button is enabled)
ChatSend ==
    /\ ~window.chat_send_disabled
    /\ nsess < limit.sends
    /\ sq_queue' = ChatPolled.queue
    /\ \E typed \in limit.inputs, has_key \in BOOLEAN, db_ok \in BOOLEAN,
          read_ok \in BOOLEAN :
         LET st == ChatPolled.chat
             win == ChatPolled.window
             s == nsess + 1
             user_message == Concat(typed)
             \* lines 367-368: get_chat_messages returns [] when the read fails
             found == IF read_ok THEN get_chat_messages(st.current_chat_id)
                      ELSE <<>>
             is_first_message == SelectSeq(found, LAMBDA m : m.role = "user") = <<>>
             stored == Append(messages, [chat_id |-> st.current_chat_id,
                                         role |-> "user",
                                         content |-> user_message])
             shown == history_text(SelectSeq(stored,
                          LAMBDA m : m.chat_id = st.current_chat_id))
         IN  IF st.current_chat_id = 0 \/ user_message = "" \/ ~has_key
             THEN \* lines 351-364: popup_error and return
                  /\ chat' = st
                  /\ window' = win
                  /\ UNCHANGED <<sessVars, messages, chat_name>>
             ELSE IF ~db_ok
             THEN \* lines 439-442: add_message raised
                  /\ chat' = st
                  /\ window' = [win EXCEPT !.chat_status = "Error"]
                  /\ UNCHANGED <<sessVars, messages, chat_name>>
             ELSE /\ messages' = stored
                  /\ chat_name' =
                       IF is_first_message
                       THEN update_chat_name(st.current_chat_id,
                                Concat(truncate_text(typed, ChatNameLength)))
                       ELSE chat_name
                  /\ stream_chat_completion(s, s, 0)
                  /\ chat' = [st EXCEPT !.streaming_client = s,
                                        !.stream_queue = s,
                                        !.is_streaming = TRUE]
                  /\ window' = [win EXCEPT
                                   !.chat_history = shown \o "\nAssistant:\n",
                                   !.chat_send_disabled = TRUE,
                                   !.chat_stop_disabled = FALSE,
                                   !.chat_status = "Streaming..."]
    /\ UNCHANGED <<sq_complete, sq_error, sq_puts, sq_marks, preset, chats,
                   preset_runs, harnessVars>>

\* chat_tab.py 444-452: -CHAT-STOP- (the Stop button is enabled)
ChatStop ==
    /\ ~window.chat_stop_disabled
    /\ sq_queue' = ChatPolled.queue
    /\ LET st == ChatPolled.chat
           win == ChatPolled.window
       IN  IF st.streaming_client # 0
           THEN /\ stop_streaming(st.streaming_client)
                /\ chat' = [st EXCEPT !.is_streaming = FALSE]
                /\ window' = chat_buttons(win, "Stopped")
           ELSE /\ chat' = st
                /\ window' = win
                /\ UNCHANGED <<stop_event, stopped, log>>
    /\ UNCHANGED <<nsess, owner, client, pc, received, full_response, cb_full_response,
                   exc, marking, creates, sent_chat>>
    /\ UNCHANGED <<sq_complete, sq_error, sq_puts, sq_marks, preset, dbVars,
                   harnessVars>>

\* chat_tab.py 217-226: -CHAT-LIST-, an entry of the chat list is selected
ChatSelect(chat_id) ==
    /\ chat_id \in chats
    /\ sq_queue' = ChatPolled.queue
    /\ chat' = [ChatPolled.chat EXCEPT !.current_chat_id = chat_id]
    /\ window' = [ChatPolled.window EXCEPT
                     !.chat_history = history_text(get_chat_messages(chat_id)),
                     !.chat_status = ""]
    /\ UNCHANGED <<sessVars, sq_complete, sq_error, sq_puts, sq_marks,
                   preset, dbVars, harnessVars>>

\* chat_tab.py 254-282: Delete Chat
ChatDelete ==
    /\ sq_queue' = ChatPolled.queue
    /\ \E response \in {"Yes", "No"} :
         IF chat.current_chat_id = 0 \/ get_chat(chat.current_chat_id) = None
                \/ response # "Yes"
         THEN /\ chat' = ChatPolled.chat
              /\ window' = ChatPolled.window
              /\ UNCHANGED <<chats, chat_name, messages>>
         ELSE LET deleted == delete_chat(chat.current_chat_id)
              IN  /\ chats' = deleted.chats
                  /\ chat_name' = deleted.chat_name
                  /\ messages' = deleted.messages
                  /\ chat' = [ChatPolled.chat EXCEPT !.current_chat_id = 0]
                  /\ window' = [ChatPolled.window EXCEPT
                                   !.chat_history = "",
                                   !.chat_status = "Chat deleted"]
    /\ UNCHANGED <<sessVars, sq_complete, sq_error, sq_puts, sq_marks,
                   preset, preset_runs, harnessVars>>

\* ------------------------------------------------------------- preset tabs
RECURSIVE PresetPollFrom(_, _)
\* preset_tab.py 199-220: the streaming poll at the top of handle_preset_events,
\* one get_token on state.stream_queue for every preset of the dict that is
\* streaming, from position i of list(state.is_streaming.items()) on
PresetPollFrom(i, acc) ==
    IF i > Len(preset.is_streaming) THEN acc
    ELSE LET preset_id == preset.is_streaming[i][1]
             q == preset.stream_queue
             r == get_token(acc.queue[q])
             hist == acc.window.preset_history
             ended == [acc.preset EXCEPT
                          !.is_streaming = DictSet(@, preset_id, FALSE)]
             enabled == [acc.window EXCEPT
                            !.preset_send_disabled[preset_id] = FALSE,
                            !.preset_stop_disabled[preset_id] = TRUE]
         IN  IF ~(preset.is_streaming[i][2] /\ q # 0)
             THEN PresetPollFrom(i + 1, acc)
             ELSE IF r[1] # None
             THEN PresetPollFrom(i + 1,
                     [preset |-> acc.preset,
                      window |-> [acc.window EXCEPT
                                     !.preset_history[preset_id] = @ \o r[1]],
                      queue |-> [acc.queue EXCEPT ![q] = r[2]]])
             ELSE IF is_complete(q)
             THEN PresetPollFrom(i + 1,
                     [preset |-> ended,
                      window |-> [enabled EXCEPT !.preset_status[preset_id] = ""],
                      queue |-> [acc.queue EXCEPT ![q] = r[2]]])
             ELSE IF has_error(q)
             THEN PresetPollFrom(i + 1,
                     [preset |-> ended,
                      window |-> [enabled EXCEPT
                                     !.preset_status[preset_id] = "Error occurred",
                                     !.popup = get_error(q)],
                      queue |-> [acc.queue EXCEPT ![q] = r[2]]])
             ELSE PresetPollFrom(i + 1,
                     [preset |-> acc.preset, window |-> acc.window,
                      queue |-> [acc.queue EXCEPT ![q] = r[2]]])

PresetPolled ==
    PresetPollFrom(1, [preset |-> preset, window |-> window, queue |-> sq_queue])

\* main.py 142-146: the timer tick polls the preset streams
PresetPoll ==
    /\ \E p \in Presets : DictGet(preset.is_streaming, p)
    /\ preset' = PresetPolled.preset
    /\ window' = PresetPolled.window
    /\ sq_queue' = PresetPolled.queue
    /\ UNCHANGED <<sessVars, sq_complete, sq_error, sq_puts, sq_marks,
                   chat, dbVars, harnessVars>>

\* preset_tab.py 323-412: -PRESET-<id>-SEND- (that preset's Send is enabled)
PresetSend(preset_id) ==
    /\ ~window.preset_send_disabled[preset_id]
    /\ nsess < limit.sends
    /\ sq_queue' = PresetPolled.queue
    /\ \E has_key \in BOOLEAN, has_fields \in BOOLEAN :
         LET st == PresetPolled.preset
             win == PresetPolled.window
             s == nsess + 1
         IN  IF ~has_key \/ ~has_fields
             THEN \* lines 327-343: popup_error and return
                  /\ preset' = st
                  /\ window' = win
                  /\ UNCHANGED sessVars
             ELSE /\ stream_chat_completion(s, s, preset_id)
                  /\ preset' = [st EXCEPT
                                   !.streaming_client = s,
                                   !.stream_queue = s,
                                   !.is_streaming = DictSet(@, preset_id, TRUE)]
                  /\ window' = [win EXCEPT
                                   !.preset_history[preset_id] = @ \o "\n--- Run ---\n",
                                   !.preset_send_disabled[preset_id] = TRUE,
                                   !.preset_stop_disabled[preset_id] = FALSE,
                                   !.preset_status[preset_id] = "Streaming..."]
    /\ UNCHANGED <<sq_complete, sq_error, sq_puts, sq_marks, chat, dbVars,
                   harnessVars>>

\* preset_tab.py 415-422: -PRESET-<id>-STOP- (that preset's Stop is enabled)
PresetStop(preset_id) ==
    /\ ~window.preset_stop_disabled[preset_id]
    /\ sq_queue' = PresetPolled.queue
    /\ LET st == PresetPolled.preset
           win == PresetPolled.window
       IN  IF st.streaming_client # 0
           THEN /\ stop_streaming(st.streaming_client)
                /\ preset' = [st EXCEPT
                                 !.is_streaming = DictSet(@, preset_id, FALSE)]
                /\ window' = [win EXCEPT
                                 !.preset_send_disabled[preset_id] = FALSE,
                                 !.preset_stop_disabled[preset_id] = TRUE,
                                 !.preset_status[preset_id] = "Stopped"]
           ELSE /\ preset' = st
                /\ window' = win
                /\ UNCHANGED <<stop_event, stopped, log>>
    /\ UNCHANGED <<nsess, owner, client, pc, received, full_response, cb_full_response,
                   exc, marking, creates, sent_chat>>
    /\ UNCHANGED <<sq_complete, sq_error, sq_puts, sq_marks, chat, dbVars,
                   harnessVars>>

\* ------------------------------------------------------------ the program
\* AIAssistantApp.__init__: empty tab states, Send enabled, Stop disabled
Constructed ==
    /\ nsess = 0
    /\ owner = [s \in Sessions |-> -1]
    /\ client = [s \in Sessions |-> 0]
    /\ stop_event = [s \in Sessions |-> FALSE]
    /\ sq_queue = [s \in Sessions |-> <<>>]
    /\ sq_complete = [s \in Sessions |-> FALSE]
    /\ sq_error = [s \in Sessions |-> None]
    /\ pc = [s \in Sessions |-> "idle"]
    /\ received = [s \in Sessions |-> <<>>]
    /\ full_response = [s \in Sessions |-> ""]
    /\ cb_full_response = [s \in Sessions |-> ""]
    /\ exc = [s \in Sessions |-> None]
    /\ marking = [s \in Sessions |-> 0]
    /\ log = [s \in Sessions |-> <<>>]
    /\ stopped = [s \in Sessions |-> FALSE]
    /\ creates = [s \in Sessions |-> 0]
    /\ sent_chat = [s \in Sessions |-> 0]
    /\ sq_puts = [s \in Sessions |-> <<>>]
    /\ sq_marks = [s \in Sessions |-> <<>>]
    /\ chat = [current_chat_id |-> 0, streaming_client |-> 0,
               stream_queue |-> 0, is_streaming |-> FALSE]
    /\ preset = [streaming_client |-> 0, stream_queue |-> 0, is_streaming |-> <<>>]
    /\ window = [chat_send_disabled |-> FALSE, chat_stop_disabled |-> TRUE,
                 chat_status |-> "", chat_history |-> "",
                 preset_send_disabled |-> [p \in Presets |-> FALSE],
                 preset_stop_disabled |-> [p \in Presets |-> TRUE],
                 preset_status |-> [p \in Presets |-> ""],
                 preset_history |-> [p \in Presets |-> ""],
                 popup |-> None]
    /\ chats = {}
    /\ chat_name = {}
    /\ messages = <<>>
    /\ preset_runs = <<>>
    /\ h_pc = "idle"
    /\ h_calls = 0
    /\ h_pre = [puts |-> <<>>, complete |-> FALSE, error |-> None, arg |-> None]
    /\ h_last = "none"
    /\ h_got = <<>>
    /\ h_stops = 0
    /\ h_stale = {}
    /\ db_calls = 0
    /\ db_pre = [chats |-> {}, chat_name |-> {}, messages |-> <<>>]
    /\ db_last = <<"none", 0>>

\* no key has been typed or validated
Unsaved ==
    /\ api_key = <<>>
    /\ valid = <<>>

Init ==
    /\ Constructed
    /\ Unsaved
    /\ limit = [sends |-> MaxSends, chunks |-> MaxChunks, chats |-> MaxChats,
                inputs |-> UserInputs]

Worker(s) ==
    \/ StreamCreate(s)
    \/ StreamNext(s)
    \/ StreamContent(s)
    \/ StreamFinal(s)
    \/ OnComplete(s)
    \/ MarkComplete(s)
    \/ MarkCompletePut(s)
    \/ OnError(s)
    \/ MarkErrorPut(s)

Next ==
    \/ ChatNew
    \/ ChatSend
    \/ ChatStop
    \/ ChatPoll
    \/ \E p \in Presets : PresetSend(p)
    \/ \E p \in Presets : PresetStop(p)
    \/ PresetPoll
    \/ \E s \in Sessions : Worker(s)

Spec == Init /\ [][Next]_vars

\* One Send and the worker it starts: a single invocation of
\* stream_chat_completion, with Stop and the polls of the UI thread.
InitStream ==
    /\ Constructed
    /\ Unsaved
    /\ limit = [sends |-> 1, chunks |-> StreamChunks, chats |-> MaxChats,
                inputs |-> UserInputs]

SpecStream == InitStream /\ [][Next]_vars

\* --------------------------------------------- a StreamQueue on its own
\* A producer thread calls add_token / mark_complete / mark_error on one
\* StreamQueue (queue 1) in any order while a consumer thread calls get_token.
HarnessTokens == {"a", "b"}
HarnessErrors == {"APIError", DbError}

Observed(arg) == [puts |-> sq_puts[1], complete |-> sq_complete[1],
                  error |-> sq_error[1], arg |-> arg]

ProducerAddToken ==
    /\ h_pc = "idle"
    /\ h_calls < MaxCalls
    /\ \E token \in HarnessTokens : add_token(1, token)
    /\ h_calls' = h_calls + 1
    /\ h_last' = "add_token"
    /\ UNCHANGED <<h_pc, h_pre, h_got, limit, clientVars, keyVars, dbCallVars>>
    /\ UNCHANGED <<sessVars, sq_complete, sq_error, sq_marks, uiVars, dbVars>>

ProducerMarkComplete ==
    /\ h_pc = "idle"
    /\ h_calls < MaxCalls
    /\ h_pre' = Observed(None)
    /\ mark_complete_flag(1)
    /\ h_pc' = "mark_complete"
    /\ h_calls' = h_calls + 1
    /\ UNCHANGED <<h_last, h_got, limit, clientVars, keyVars, dbCallVars>>
    /\ UNCHANGED <<sessVars, sq_queue, sq_error, sq_puts, uiVars, dbVars>>

ProducerMarkError ==
    /\ h_pc = "idle"
    /\ h_calls < MaxCalls
    /\ \E e \in HarnessErrors :
         /\ h_pre' = Observed(e)
         /\ mark_error_store(1, e)
    /\ h_pc' = "mark_error"
    /\ h_calls' = h_calls + 1
    /\ UNCHANGED <<h_last, h_got, limit, clientVars, keyVars, dbCallVars>>
    /\ UNCHANGED <<sessVars, sq_queue, sq_puts, uiVars, dbVars>>

\* the put(None) that ends mark_complete / mark_error, and the return
ProducerMarkReturn ==
    /\ h_pc \in {"mark_complete", "mark_error"}
    /\ mark_put(1)
    /\ h_last' = h_pc
    /\ h_pc' = "idle"
    /\ UNCHANGED <<h_calls, h_pre, h_got, limit, clientVars, keyVars, dbCallVars>>
    /\ UNCHANGED <<sessVars, sq_complete, sq_error, sq_marks, uiVars, dbVars>>

ConsumerGetToken ==
    /\ Len(h_got) < MaxGets
    /\ LET r == get_token(sq_queue[1])
       IN  /\ h_got' = Append(h_got, r[1])
           /\ sq_queue' = [sq_queue EXCEPT ![1] = r[2]]
    /\ UNCHANGED <<h_pc, h_calls, h_pre, h_last, limit, clientVars, keyVars, dbCallVars>>
    /\ UNCHANGED <<sessVars, sq_complete, sq_error, sq_puts, sq_marks, uiVars, dbVars>>

InitQueue ==
    /\ Constructed
    /\ Unsaved
    /\ limit = [sends |-> 0, chunks |-> 0, chats |-> MaxChats, inputs |-> UserInputs]

NextQueue ==
    \/ ProducerAddToken
    \/ ProducerMarkComplete
    \/ ProducerMarkError
    \/ ProducerMarkReturn
    \/ ConsumerGetToken

SpecQueue == InitQueue /\ [][NextQueue]_vars

\* ------------------------------------------ a StreamingClient on its own
\* A caller builds one StreamingClient and one StreamQueue in the chat tab's
\* state (chat_tab.py 393-398) and then calls stream_chat_completion, with the
\* chat tab's callbacks, and stop_streaming on that client in any order: two
\* invocations, which may overlap. No chat is selected, so that on_complete
\* writes no message.
ClientBuild ==
    /\ chat.streaming_client = 0
    /\ chat' = [chat EXCEPT !.streaming_client = 1, !.stream_queue = 1]
    /\ UNCHANGED <<sessVars, queueVars, preset, window, dbVars, harnessVars>>

ClientStream ==
    /\ chat.streaming_client # 0
    /\ nsess < limit.sends
    /\ stream_chat_completion(nsess + 1, chat.streaming_client, 0)
    /\ h_stale' = IF stop_event[chat.streaming_client]
                  THEN h_stale \cup {nsess + 1} ELSE h_stale
    /\ UNCHANGED <<h_pc, h_calls, h_pre, h_last, h_got, limit, h_stops, keyVars, dbCallVars>>
    /\ UNCHANGED <<queueVars, uiVars, dbVars>>

ClientStop ==
    /\ chat.streaming_client # 0
    /\ h_stops < MaxStops
    /\ stop_streaming(chat.streaming_client)
    /\ h_stops' = h_stops + 1
    /\ UNCHANGED <<nsess, owner, client, pc, received, full_response,
                   cb_full_response, exc, marking, creates, sent_chat>>
    /\ UNCHANGED <<h_pc, h_calls, h_pre, h_last, h_got, limit, h_stale, keyVars, dbCallVars>>
    /\ UNCHANGED <<queueVars, uiVars, dbVars>>

InitClient ==
    /\ Constructed
    /\ Unsaved
    /\ limit = [sends |-> 2, chunks |-> ClientChunks, chats |-> MaxChats,
                inputs |-> UserInputs]

NextClient ==
    \/ ClientBuild
    \/ ClientStream
    \/ ClientStop
    \/ \E s \in Sessions : Worker(s)

SpecClient == InitClient /\ [][NextClient]_vars

\* ------------------------------------------------------ validate_api_key
\* keys that are typed into the form: a prefix followed by some more characters
KeyPrefixes == {<<>>, <<"s", "k", "-">>, <<"s", "k">>, <<"S", "K", "-">>}
Padding(n) == [i \in 1..n |-> "x"]
Keys == {p \o Padding(n) : p \in KeyPrefixes, n \in 0..MaxPadding}

\* str.startswith
startswith(text, prefix) ==
    Len(text) >= Len(prefix) /\ SubSeq(text, 1, Len(prefix)) = prefix

\* utils.py 140-153
validate_api_key(k) ==
    IF k = <<>> THEN FALSE
    ELSE startswith(k, <<"s", "k", "-">>) /\ Len(k) > MinKeyLength

\* a call validate_api_key(api_key), as the Save handler of the settings
\* makes it (settings_tab.py 71)
ValidateApiKey ==
    /\ valid = <<>>
    /\ valid' = <<validate_api_key(api_key)>>
    /\ UNCHANGED <<sessVars, queueVars, uiVars, dbVars>>
    /\ UNCHANGED <<h_pc, h_calls, h_pre, h_last, h_got, limit, clientVars, api_key, dbCallVars>>

InitKey ==
    /\ Constructed
    /\ limit = [sends |-> 0, chunks |-> 0, chats |-> MaxChats, inputs |-> UserInputs]
    /\ api_key \in Keys
    /\ valid = <<>>

SpecKey == InitKey /\ [][ValidateApiKey]_vars

\* ------------------------------------------- the chat tab, fairly scheduled
\* The chat tab used without Stop: New Chat, Send and the timer poll of the
\* main loop (main.py 114-140, read(timeout=100) on every turn), and the
\* worker threads, each of which the interpreter keeps scheduling.
InitLive ==
    /\ Constructed
    /\ Unsaved
    /\ limit = [sends |-> 2, chunks |-> MaxChunks, chats |-> MaxChats,
                inputs |-> UserInputs]

NextLive ==
    \/ ChatNew
    \/ ChatSend
    \/ ChatPoll
    \/ \E s \in Sessions : Worker(s)

SpecLive ==
    /\ InitLive
    /\ [][NextLive]_vars
    /\ WF_vars(ChatPoll)
    /\ \A s \in Sessions : WF_vars(Worker(s))

\* ------------------------------------------------ the chat list while streaming
\* The chat tab with its chat list: New Chat, selection and Delete Chat are
\* handled between the Sends and while a stream is running.
\* The long input has a blank as its 40th character.
LongInput == Padding(ChatNameLength - 1) \o <<" ", "y", "z">>
ChatInputs == UserInputs \cup {LongInput}

InitChats ==
    /\ Constructed
    /\ Unsaved
    /\ limit = [sends |-> MaxSends, chunks |-> MaxChunks, chats |-> ManyChats,
                inputs |-> ChatInputs]

NextChats ==
    \/ ChatNew
    \/ \E c \in 1..ManyChats : ChatSelect(c)
    \/ ChatDelete
    \/ ChatSend
    \/ ChatPoll
    \/ \E s \in Sessions : Worker(s)

SpecChats == InitChats /\ [][NextChats]_vars

\* ------------------------------------------------- a Database on its own
\* create_chat, add_message and delete_chat called in any order with any
\* chat id; the tables before the last call are kept in db_pre.
Tables == [chats |-> chats, chat_name |-> chat_name, messages |-> messages]

DbCall(method, chat_id) ==
    /\ db_calls < MaxDbCalls
    /\ db_calls' = db_calls + 1
    /\ db_pre' = Tables
    /\ db_last' = <<method, chat_id>>
    /\ UNCHANGED <<h_pc, h_calls, h_pre, h_last, h_got, limit, clientVars, keyVars>>
    /\ UNCHANGED <<sessVars, queueVars, uiVars, preset_runs>>

DbCreateChat ==
    /\ next_chat_id <= limit.chats
    /\ DbCall("create_chat", next_chat_id)
    /\ chats' = create_chat("New Chat").chats
    /\ chat_name' = create_chat("New Chat").chat_name
    /\ messages' = messages

\* the messages table is created without enforced foreign keys: a row is
\* stored for any chat_id
DbAddMessage(chat_id, role) ==
    /\ DbCall("add_message", chat_id)
    /\ messages' = Append(messages, [chat_id |-> chat_id, role |-> role,
                                     content |-> "hi"])
    /\ UNCHANGED <<chats, chat_name>>

DbDeleteChat(chat_id) ==
    /\ DbCall("delete_chat", chat_id)
    /\ chats' = delete_chat(chat_id).chats
    /\ chat_name' = delete_chat(chat_id).chat_name
    /\ messages' = delete_chat(chat_id).messages

InitDb ==
    /\ Constructed
    /\ Unsaved
    /\ limit = [sends |-> 0, chunks |-> 0, chats |-> ManyChats,
                inputs |-> UserInputs]

NextDb ==
    \/ DbCreateChat
    \/ \E c \in 1..ManyChats, role \in {"user", "assistant"} : DbAddMessage(c, role)
    \/ \E c \in 1..ManyChats : DbDeleteChat(c)

SpecDb == InitDb /\ [][NextDb]_vars

\* ------------------------------------------------------------ properties
Delivered(s) == Logged(log[s], "token")
Completed(s) == Logged(log[s], "complete")
Failed(s) == Logged(log[s], "error")
NonEmpty(seq) == SelectSeq(seq, LAMBDA c : c # "")
Front(seq) == SubSeq(seq, 1, Len(seq) - 1)
\* the remote call of session s raised (when created or while streaming)
RemoteRaised(s) == exc[s] \in CreateErrors \cup StreamErrors
\* no on_token call follows a terminal callback in the log of session s
TokensBeforeTerminal(s) ==
    \A i, j \in 1..Len(log[s]) :
        (i < j /\ log[s][i][1] \in {"complete", "error"}) => log[s][j][1] # "token"

\* C1: an invocation whose remote stream ends normally and on whose client
\* stop_streaming is never called invokes on_complete exactly once, with the
\* concatenation, in receipt order, of the tokens it passed to on_token.
C1_CompleteOnceWithAllTokens ==
    \A s \in Sessions :
        (~stopped[s] /\ ~RemoteRaised(s)) =>
            /\ Len(Completed(s)) <= 1
            /\ Completed(s) # <<>> => Completed(s)[1] = Concat(Delivered(s))
            /\ pc[s] = "done" => Len(Completed(s)) = 1

C1_Witness ==
    \E s \in Sessions :
        /\ pc[s] = "done" /\ ~stopped[s] /\ ~RemoteRaised(s)
        /\ Len(Delivered(s)) = 2
        /\ Len(received[s]) = 3
        /\ Completed(s) = <<Delivered(s)[1] \o Delivered(s)[2]>>

\* C2: once stop_streaming has been called on the client of an invocation, the
\* worker invokes neither on_complete nor on_error for that invocation.
C2_NoTerminalAfterStop ==
    \A s \in Sessions :
        \A i, j \in 1..Len(log[s]) :
            (i < j /\ log[s][i][1] = "stop") => log[s][j][1] \notin {"complete", "error"}

\* C3: when the remote call raises during an uncancelled stream, on_error is
\* invoked exactly once with the raised exception, on_complete is never
\* invoked for that invocation, and the request is made once only.
C3_ErrorOnceNoCompleteNoRetry ==
    \A s \in Sessions :
        (RemoteRaised(s) /\ ~stopped[s]) =>
            /\ creates[s] = 1
            /\ Completed(s) = <<>>
            /\ Failed(s) \in {<<>>, <<exc[s]>>}
            /\ pc[s] \in {"mark_error_put", "done"} => Failed(s) = <<exc[s]>>

C3_Witness ==
    \E s \in Sessions :
        /\ pc[s] = "done" /\ ~stopped[s]
        /\ exc[s] \in StreamErrors
        /\ Delivered(s) # <<>>
        /\ Failed(s) = <<exc[s]>>
        /\ Completed(s) = <<>>

\* C4: every invocation delivers at most one terminal event: on_complete and
\* on_error together are invoked at most once, also when a callback raises.
C4_AtMostOneTerminal ==
    \A s \in Sessions : Len(Completed(s)) + Len(Failed(s)) <= 1

\* C5 as stated: on_token is invoked once per received non-empty content
\* fragment, in receipt order, and never after the terminal callback.
C5_TokenPerReceivedFragment ==
    \A s \in Sessions :
        /\ pc[s] # "content" => Delivered(s) = NonEmpty(received[s])
        /\ TokensBeforeTerminal(s)

\* C5 as amended: on_token is invoked once per non-empty content fragment,
\* in receipt order and never after the terminal callback, for every fragment
\* received except the one handed to the loop when it finds the stop flag set
\* (that fragment is dropped and is the last one received).
C5_TokenPerFragmentUnlessStopped ==
    \A s \in Sessions :
        /\ IsPrefix(Delivered(s), NonEmpty(received[s]))
        /\ (pc[s] # "content" /\ ~stopped[s]) =>
               Delivered(s) = NonEmpty(received[s])
        /\ (pc[s] # "content" /\ stopped[s]) =>
               Delivered(s) \in {NonEmpty(received[s]), NonEmpty(Front(received[s]))}
        /\ TokensBeforeTerminal(s)

C5_Witness ==
    \E s \in Sessions :
        /\ pc[s] = "done" /\ ~stopped[s]
        /\ Len(received[s]) = 3
        /\ received[s][2] = ""
        /\ Delivered(s) = <<received[s][1], received[s][3]>>
        /\ Len(Completed(s)) + Len(Failed(s)) = 1

\* C6: with one consumer, the non-sentinel values get_token has returned,
\* followed by the tokens still queued, are the pushed tokens in push order:
\* nothing is lost, duplicated or reordered.
C6_Fifo ==
    SelectSeq(h_got, NotNone) \o SelectSeq(sq_queue[1], NotNone)
        = SelectSeq(sq_puts[1], NotNone)

C6_Witness ==
    /\ Len(SelectSeq(h_got, NotNone)) = 2
    /\ h_got[1] = None
    /\ SelectSeq(h_got, NotNone)[1] # SelectSeq(h_got, NotNone)[2]
    /\ SelectSeq(sq_queue[1], NotNone) # <<>>

\* C7: after mark_complete() returns, is_complete() is true, has_error() is
\* as before the call, and exactly one sentinel was appended behind
\* everything pushed before the call.
C7_MarkComplete ==
    (h_pc = "idle" /\ h_last = "mark_complete") =>
        /\ is_complete(1)
        /\ has_error(1) = (h_pre.error # None)
        /\ sq_puts[1] = Append(h_pre.puts, None)

C7_Witness ==
    /\ h_pc = "idle" /\ h_last = "mark_complete"
    /\ Len(SelectSeq(h_pre.puts, NotNone)) = 2
    /\ ~h_pre.complete

\* C8: after mark_error(e) returns, has_error() is true, get_error() is e,
\* is_complete() is as before the call (false if it was false), and exactly
\* one sentinel None, not the error, was appended behind everything pushed
\* before the call.
C8_MarkError ==
    (h_pc = "idle" /\ h_last = "mark_error") =>
        /\ has_error(1)
        /\ get_error(1) = h_pre.arg
        /\ is_complete(1) = h_pre.complete
        /\ sq_puts[1] = Append(h_pre.puts, None)
        /\ sq_puts[1][Len(sq_puts[1])] # h_pre.arg

C8_Witness ==
    /\ h_pc = "idle" /\ h_last = "mark_error"
    /\ Len(SelectSeq(h_pre.puts, NotNone)) = 2
    /\ ~h_pre.complete /\ ~is_complete(1)
    /\ get_error(1) = DbError

\* C9: once the sentinel has been enqueued on a queue created by a Send, no
\* token is added to that queue any more.
C9_NoTokenAfterSentinel ==
    \A q \in Sessions :
        \A i, j \in 1..Len(sq_puts[q]) :
            (i < j /\ sq_puts[q][i] = None) => sq_puts[q][j] = None

\* C10: mark_complete / mark_error are called at most once, together, on the
\* queue of each session (and exactly once when its stream is not cancelled).
C10_MarkedOnce ==
    \A q \in Sessions :
        /\ Len(sq_marks[q]) <= 1
        /\ (pc[q] = "done" /\ ~stopped[q]) => Len(sq_marks[q]) = 1

\* the worker thread of session s has been started and has not returned
Alive(s) == pc[s] \notin {"idle", "done"}
\* the sessions started by the Sends of one tab state
ChatSessions == {s \in Sessions : owner[s] = 0}
PresetSessions == {s \in Sessions : owner[s] \in Presets}

\* C11: at most one worker thread is alive at any time per tab state
\* (ChatTabState, PresetTabState), also after Stop and across presets.
C11_OneWorkerPerTab ==
    /\ Cardinality({s \in ChatSessions : Alive(s)}) <= 1
    /\ Cardinality({s \in PresetSessions : Alive(s)}) <= 1

\* the content fragments the remote stream of session s can deliver
FragmentsOf(s) == {Fragment(s, k) : k \in 1..limit.chunks}
\* what a poller that has taken some of the tokens of session s has shown
Shown(s) == {Concat(SubSeq(Delivered(s), 1, n)) : n \in 0..Len(Delivered(s))}
RECURSIVE RunsShown(_, _)
\* the texts a preset's history can hold when it shows, for each of the first
\* s Sends that is its own, the run header and tokens of that Send only
RunsShown(preset_id, s) ==
    IF s = 0 THEN {""}
    ELSE IF owner[s] # preset_id THEN RunsShown(preset_id, s - 1)
    ELSE {h \o "\n--- Run ---\n" \o x : h \in RunsShown(preset_id, s - 1),
                                        x \in Shown(s)}

\* C12: every token put into the queue created by a Send was produced by the
\* worker that this Send started, and every token taken from a queue is
\* appended to the history of the preset whose Send created the queue.
C12_SingleProducerSingleConsumer ==
    /\ \A q \in Sessions :
           \A i \in 1..Len(sq_puts[q]) :
               sq_puts[q][i] # None => sq_puts[q][i] \in FragmentsOf(q)
    /\ \A p \in Presets : window.preset_history[p] \in RunsShown(p, nsess)

\* on_token calls of session s that follow the stop_streaming call
TokensAfterStop(s) ==
    {j \in 1..Len(log[s]) :
        /\ log[s][j][1] = "token"
        /\ \E i \in 1..(j - 1) : log[s][i][1] = "stop"}
\* stream_chat_completion was called again on the client of session s
CalledAgain(s) == \E s2 \in Sessions : s2 > s /\ client[s2] = client[s]

\* C13: when stop_streaming is called while a worker streams and
\* stream_chat_completion is not called again on that client, the worker
\* invokes on_token at most once more after the stop call, and the tokens it
\* delivered are a prefix of the fragments of the remote stream.
C13_AtMostOneTokenAfterStop ==
    \A s \in Sessions :
        (stopped[s] /\ ~CalledAgain(s)) =>
            /\ Cardinality(TokensAfterStop(s)) <= 1
            /\ IsPrefix(Delivered(s), NonEmpty(received[s]))

C13_Witness ==
    \E s \in Sessions :
        /\ stopped[s] /\ ~CalledAgain(s) /\ pc[s] = "done"
        /\ Cardinality(TokensAfterStop(s)) = 1
        /\ Len(Delivered(s)) = 1
        /\ Len(NonEmpty(received[s])) = 2

\* the rows a stream can have written: assistant messages, preset runs
AssistantRows == SelectSeq(messages, LAMBDA m : m.role = "assistant")
\* the worker of session s has returned from add_message / add_preset_run
\* and the table holds the response of its stream
Persisted(s) ==
    /\ pc[s] \in {"mark_complete", "mark_complete_put", "done"}
    /\ Completed(s) # <<>>
    /\ exc[s] # DbError
    /\ IF owner[s] = 0
       THEN \E i \in 1..Len(AssistantRows) :
                AssistantRows[i].content = Concat(NonEmpty(received[s]))
       ELSE \E i \in 1..Len(preset_runs) :
                preset_runs[i] = [preset_id |-> owner[s],
                                  response |-> Concat(NonEmpty(received[s]))]

\* C14: a stream that finishes without cancellation persists its full
\* response by exactly one add_message / add_preset_run call, which completes
\* before is_complete() of the Send's queue becomes true: whenever the poller
\* can observe completion, the reply is in the database.
C14_PersistedBeforeComplete ==
    /\ \A s \in Sessions : (nsess >= s /\ is_complete(s)) => Persisted(s)
    /\ Len(AssistantRows) + Len(preset_runs)
           = Cardinality({s \in Sessions : Persisted(s)})

\* how the worker of session s left the for loop: <<"break">>, <<"end">>, or
\* <<>> while it is in the loop or when the remote call raised
Left(s) == Logged(log[s], "leave")
\* the sessions whose response is stored with the given content for tab o
PersistedAs(o, content) ==
    {s \in Sessions : /\ owner[s] = o
                      /\ Persisted(s)
                      /\ Concat(NonEmpty(received[s])) = content}

\* C15: every assistant message or preset run written by a stream is the
\* concatenation of all content fragments the remote stream delivered up to
\* its natural end; a worker that left the loop because of stop_streaming or
\* a remote error writes nothing.
C15_NoPartialPersisted ==
    /\ \A s \in Sessions :
           Persisted(s) => (Left(s) = <<"end">> /\ ~RemoteRaised(s))
    /\ \A i \in 1..Len(AssistantRows) :
           Cardinality({j \in 1..Len(AssistantRows) :
                           AssistantRows[j].content = AssistantRows[i].content})
               = Cardinality(PersistedAs(0, AssistantRows[i].content))
    /\ \A i \in 1..Len(preset_runs) :
           Cardinality({j \in 1..Len(preset_runs) : preset_runs[j] = preset_runs[i]})
               = Cardinality(PersistedAs(preset_runs[i].preset_id,
                                         preset_runs[i].response))

C15_Witness ==
    \E s \in Sessions :
        /\ pc[s] = "done" /\ owner[s] = 0 /\ Left(s) = <<"end">>
        /\ Len(received[s]) = 3
        /\ Len(NonEmpty(received[s])) = 2
        /\ Persisted(s)
        /\ Len(AssistantRows) = 1
        /\ AssistantRows[1].content = received[s][1] \o received[s][2] \o received[s][3]

\* the chat tab is in the streaming state of the Send of session s
ChatStreaming(s) == chat.stream_queue = s /\ chat.is_streaming
\* the poller has ended the streaming state of the chat stream of session s
ChatObserved(s) ==
    /\ chat.stream_queue = s
    /\ ~chat.is_streaming
    /\ ~window.chat_send_disabled
    /\ window.chat_stop_disabled

C17_StaleStopCleared ==
    \A s \in h_stale :
        (~stopped[s] /\ ~RemoteRaised(s)) =>
            /\ Left(s) # <<"break">>
            /\ pc[s] = "done" =>
                   /\ Left(s) = <<"end">>
                   /\ Delivered(s) = NonEmpty(received[s])
                   /\ Completed(s) = <<Concat(Delivered(s))>>

C17_Witness ==
    \E s \in h_stale :
        /\ ~stopped[s] /\ ~RemoteRaised(s) /\ pc[s] = "done"
        /\ h_stops > 0
        /\ Len(Delivered(s)) = 2
        /\ Completed(s) = <<Delivered(s)[1] \o Delivered(s)[2]>>

\* C18: stop_streaming is idempotent: a call made while the flag is already
\* set (one or more calls precede it, with no stream_chat_completion since)
\* leaves the client, the running workers, the queue and the window as they
\* are, so the callbacks behave as after a single call.
C18_StopIdempotent ==
    [][(h_stops' = h_stops + 1 /\ stop_event[chat.streaming_client]) =>
           UNCHANGED <<nsess, owner, client, stop_event, pc, received,
                       full_response, cb_full_response, exc, marking, creates,
                       sq_queue, sq_complete, sq_error, uiVars, dbVars>>]_vars

C18_Witness ==
    /\ h_stops = 2
    /\ nsess = 1 /\ h_stale = {}
    /\ stop_event[client[1]]
    /\ pc[1] = "content"
    /\ Len(Delivered(1)) = 1

\* C19: get_token on an empty queue returns None and leaves the queue, the
\* completion flag and the stored error as they are; on a non-empty queue it
\* removes and returns exactly the head entry and changes nothing else.
C19_GetTokenFrame ==
    [][Len(h_got') = Len(h_got) + 1 =>
           /\ UNCHANGED <<sq_complete, sq_error, sq_puts, sq_marks>>
           /\ IF sq_queue[1] = <<>>
              THEN /\ h_got'[Len(h_got')] = None
                   /\ sq_queue' = sq_queue
              ELSE /\ h_got'[Len(h_got')] = Head(sq_queue[1])
                   /\ sq_queue' = [sq_queue EXCEPT ![1] = Tail(@)]]_vars

\* a None returned for an empty queue, then a token, then the sentinel
C19_Witness ==
    /\ Len(sq_puts[1]) = 2
    /\ sq_puts[1][1] # None /\ sq_puts[1][2] = None
    /\ h_got = <<None, sq_puts[1][1], None>>
    /\ sq_queue[1] = <<>>
    /\ has_error(1) /\ ~is_complete(1)

\* C20: validate_api_key(k) returns True exactly when k starts with 'sk-' and
\* is at least 20 characters long, and False for every other string, the
\* empty one included.
C20_ValidIffPrefixAndAtLeast20 ==
    valid # <<>> =>
        valid[1] = (startswith(api_key, <<"s", "k", "-">>)
                    /\ Len(api_key) >= MinKeyLength)

PersistRaised(s) == owner[s] = 0 /\ exc[s] = DbError

\* C22: when add_message raises inside the chat tab's on_complete, on_error
\* is invoked with that exception, mark_error stores it in the queue of the
\* session, and mark_complete is never called for that session.
C22_PersistFailureStored ==
    \A s \in Sessions :
        (PersistRaised(s) /\ pc[s] \in {"mark_error_put", "done"}) =>
            /\ Failed(s) = <<DbError>>
            /\ marking[s] = s
            /\ get_error(s) = DbError
            /\ sq_marks[s] = <<"error">>
            /\ ~is_complete(s)

\* C22, the poller's part: the tab does not stay in the streaming state of a
\* session whose on_complete raised; the poller ends it and reports the error.
C22_PersistFailureObserved ==
    \A s \in Sessions :
        (PersistRaised(s) /\ ChatStreaming(s)) ~>
            (ChatObserved(s) /\ window.popup = DbError)

\* ---------------------------------------------------------------- C23
\* a step of the Send handler that stores the user's message
SendStored ==
    /\ Len(messages') = Len(messages) + 1
    /\ SubSeq(messages', 1, Len(messages)) = messages
    /\ messages'[Len(messages')].role = "user"

HadUserMessage(chat_id) ==
    \E i \in 1..Len(messages) :
        messages[i].chat_id = chat_id /\ messages[i].role = "user"

\* C23: a Send of the chat tab renames the chat, to the truncated text of the
\* message, exactly when the chat held no user message before it; a Send into
\* a chat that holds a user message leaves every chat name as it was.
C23_RenameOnFirstSendOnly ==
    [][SendStored =>
          LET m == messages'[Len(messages')]
          IN  IF HadUserMessage(m.chat_id)
              THEN chat_name' = chat_name
              ELSE \E typed \in limit.inputs :
                     /\ Concat(typed) = m.content
                     /\ chat_name' = update_chat_name(m.chat_id,
                                         Concat(truncate_text(typed, ChatNameLength)))
      ]_vars

\* ---------------------------------------------------------------- C24
RowsOf(rows, chat_id) == SelectSeq(rows, LAMBDA m : m.chat_id = chat_id)
RowsNotOf(rows, chat_id) == SelectSeq(rows, LAMBDA m : m.chat_id # chat_id)

\* C24: after delete_chat(c) on an existing chat, get_chat(c) is None and
\* get_chat_messages(c) is empty, and the other chats, their names and their
\* messages are as before the call; delete_chat on an id without a row leaves
\* the tables as they were.
C24_DeleteChatFrame ==
    db_last[1] = "delete_chat" =>
        LET c == db_last[2]
        IN  IF c \in db_pre.chats
            THEN /\ get_chat(c) = None
                 /\ get_chat_messages(c) = <<>>
                 /\ chats = db_pre.chats \ {c}
                 /\ chat_name = {r \in db_pre.chat_name : r[1] # c}
                 /\ RowsNotOf(messages, c) = RowsNotOf(db_pre.messages, c)
            ELSE Tables = db_pre

\* a chat with messages was deleted while another chat holds messages
C24_Witness ==
    /\ db_last = <<"delete_chat", 1>>
    /\ 1 \in db_pre.chats
    /\ RowsOf(db_pre.messages, 1) # <<>>
    /\ 2 \in chats
    /\ RowsOf(messages, 2) # <<>>

\* ---------------------------------------------------------------- C25
\* the next poll of the chat tab ends the session of queue q on completion:
\* get_token returns None and is_complete() is true
PollEndsOnCompletion(q) ==
    /\ ChatStreaming(q)
    /\ get_token(sq_queue[q])[1] = None
    /\ is_complete(q)

\* the texts the history can hold when it shows stored messages of the
\* current chat, the header of the reply and the given reply
ShownWithReply(reply) ==
    LET rows == get_chat_messages(chat.current_chat_id)
    IN  {history_text(SubSeq(rows, 1, n)) \o "\nAssistant:\n" \o reply :
            n \in 0..Len(rows)}

\* C25: when the chat poller ends a session on completion, every token its
\* worker pushes into the session's queue has been dequeued and appended to
\* the history, and the reply displayed is the response that was persisted.
C25_DisplayedIsPersisted ==
    \A q \in Sessions :
        PollEndsOnCompletion(q) =>
            /\ \A i \in 1..Len(sq_queue[q]) : sq_queue[q][i] = None
            /\ Persisted(q)
            /\ window.chat_history \in ShownWithReply(Concat(NonEmpty(received[q])))

\* ---------------------------------------------------------------- C26
\* C26: whenever get_token dequeues the sentinel of a StreamQueue,
\* is_complete() or has_error() is already true.
C26_FlagBeforeSentinel ==
    [][(/\ Len(h_got') = Len(h_got) + 1
        /\ sq_queue[1] # <<>>
        /\ Head(sq_queue[1]) = None)
           => (is_complete(1) \/ has_error(1))]_vars

\* the consumer has taken a token and then the sentinel of mark_complete
C26_Witness ==
    /\ Len(sq_puts[1]) = 2
    /\ sq_puts[1][1] # None /\ sq_puts[1][2] = None
    /\ h_got = <<sq_puts[1][1], None>>
    /\ sq_queue[1] = <<>>
    /\ is_complete(1) /\ ~has_error(1)

\* ---------------------------------------------------------------- C27
\* C27: when the on_complete of a chat stream returns from the database, the
\* reply has been stored as an assistant message of the chat that was current
\* when the Send of the stream was handled.
C27_ReplyStoredInSendChat ==
    [][\A s \in Sessions :
          (/\ owner[s] = 0
           /\ pc[s] = "on_complete"
           /\ pc'[s] = "mark_complete")
              => messages' = Append(messages, [chat_id |-> sent_chat[s],
                                               role |-> "assistant",
                                               content |-> cb_full_response[s]])
      ]_vars

\* ---------------------------------------------------------------- C28
\* on_complete invocations of session s whose worker was still in the loop of
\* lines 53-61 when stop_streaming was called
CompleteAfterStop(s) ==
    {j \in 1..Len(log[s]) :
        /\ log[s][j][1] = "complete"
        /\ \E i, k \in 1..(j - 1) :
               i < k /\ log[s][i][1] = "stop" /\ log[s][k][1] = "leave"}

\* C28: a worker cancelled by stop_streaming while it streams stays cancelled
\* when stream_chat_completion is called again on that client: after the stop
\* call it delivers at most one more token and does not invoke on_complete.
C28_StaysCancelledOnReuse ==
    \A s \in Sessions :
        CalledAgain(s) =>
            /\ Cardinality(TokensAfterStop(s)) <= 1
            /\ CompleteAfterStop(s) = {}

\* ---------------------------------------------------------------- C29
\* C29: once Stop has been handled for the one chat stream that was sent, the
\* database holds no assistant message, neither one written before the Stop
\* nor one written after it.
C29_NoReplyOfStoppedRequest ==
    (\E s \in ChatSessions : stopped[s] /\ window.chat_status = "Stopped")
        => AssistantRows = <<>>

\* ---------------------------------------------------------------- C30
\* the invocation started by the latest Send of the preset
LastSessionOf(preset_id) ==
    CHOOSE s \in Sessions :
        /\ owner[s] = preset_id
        /\ \A s2 \in Sessions : owner[s2] = preset_id => s2 <= s

\* C30: when Stop has been handled for a preset, stop_streaming has been
\* called on the client of the worker that this preset's own Send started,
\* and that worker delivers at most one more token and records no run.
C30_StopCancelsOwnWorker ==
    \A p \in Presets :
        window.preset_status[p] = "Stopped" =>
            /\ stopped[LastSessionOf(p)]
            /\ Cardinality(TokensAfterStop(LastSessionOf(p))) <= 1

====
